---- MODULE Spec2Model ----
(***************************************************************************)
(* spicy: the command runners of run.go (ExecRunner, OutputFileRunner,     *)
(* MappedFileRunner, writeTempFile) and the ROM build pipeline of          *)
(* cmd/spicy/main.go (mainE, main).                                        *)
(*                                                                         *)
(* A Go string is a sequence of text segments (Seq(STRING)); formatting    *)
(* concatenates segments, and "s contains t" is contiguous containment.    *)
(* A byte stream is a sequence of bytes.                                   *)
(***************************************************************************)
EXTENDS Integers, Sequences, FiniteSets, TLC

VARIABLES
    \* ---- run.go ----
    runner,       \* the runner under test: kind, command, expectedOutputFile,
                  \* inputFileArgs (the keys of the map), outputFileArg
    streams,      \* inputFileArgs' values: key -> bytes not yet read from the io.Reader
    fs,           \* the file system: path -> [data, readable]
    rpc,          \* position inside Run: "idle", "loop", "done"
    args,         \* Run's args parameter
    newArgs,      \* MappedFileRunner.Run's newArgs
    idx,          \* the range loop's position in args (1-based)
    proc,         \* what the spawned program did (NoProc before it ran)
    result,       \* what Run returned: [out, err]
    innerCalls,   \* argument lists handed to the inner runner, in order
    reads,        \* paths Run opened or read, in order
    created,      \* temp files created by writeTempFile: <<key, path>>, in order
    openHandles,  \* paths of *os.File handles that are open
    nextTmp,      \* the next unused random suffix of ioutil.TempFile
    \* ---- cmd/spicy/main.go ----
    pc,           \* position inside mainE / main
    flags,        \* the parsed command line: nargs, romsizeMbits, filldata
    waves,        \* spec.Waves: per wave, the number of includes of its raw segments
    wi,           \* index of the wave being processed (1-based)
    ii,           \* index of the include being processed in the wave (1-based)
    rom,          \* the n64rom image: [ok, fill, len, code], NoRom before it exists
    bin,          \* binarizedObjectBytes of the current wave
    out,          \* the output file on disk: [exists, len, created (by this run)]
    prevCode,     \* rom.code as it was before the latest rom.WriteAt that stored bytes
    err,          \* mainE's return value: an error or Nil
    exitCode,     \* the process exit code, -1 while running
    invoked,      \* the stages invoked so far
    failed,       \* the stages that have failed so far
    ranAfter      \* the failed stages after whose failure another stage was invoked

runVars == <<runner, streams, fs, rpc, args, newArgs, idx, proc, result, innerCalls,
             reads, created, openHandles, nextTmp>>
mainVars == <<pc, flags, waves, wi, ii, rom, bin, out, prevCode, err, exitCode,
              invoked, failed, ranAfter>>
vars == <<runVars, mainVars>>

\* ------------------------------------------------------------------------
\* Bounds of the model
\* ------------------------------------------------------------------------
MaxArgs == 2          \* longest argument list passed to Run
MaxWaves == 2         \* most build units in a spec
MaxIncludes == 1      \* most includes in one build unit
MaxBin == 2           \* longest binarized output of a build unit

\* ------------------------------------------------------------------------
\* Strings, errors, streams
\* ------------------------------------------------------------------------
Max(a, b) == IF a >= b THEN a ELSE b

\* strings.Contains on segment sequences
Contains(s, t) ==
    \E i \in 0..(Len(s) - Len(t)) : SubSeq(s, i + 1, i + Len(t)) = t

RECURSIVE Itoa(_)
Itoa(n) ==
    LET d == <<"0", "1", "2", "3", "4", "5", "6", "7", "8", "9">>
    IN IF n < 10 THEN <<d[n + 1]>> ELSE Itoa(n \div 10) \o <<d[(n % 10) + 1]>>

Nil == [type |-> "nil", msg |-> <<>>]
NilReader == [nil |-> TRUE, data |-> <<>>]
Reader(b) == [nil |-> FALSE, data |-> b]

\* errors.New / fmt.Errorf without %w
ErrorString(msg) == [type |-> "*errors.errorString", msg |-> msg]
\* (*os.PathError).Error(): Op + " " + Path + ": " + Err.Error()
PathError(op, path, cause) ==
    [type |-> "*os.PathError", msg |-> <<op, " ">> \o path \o <<": ", cause>>]

\* ------------------------------------------------------------------------
\* run.go
\* ------------------------------------------------------------------------
Tokens == {<<"-o">>, <<"in.o">>, <<"out.bin">>}
Commands == {<<"ld">>}
ArgLists == UNION {[1..n -> Tokens] : n \in 0..MaxArgs}

StdoutTexts == {<<>>, <<7>>}
StderrTexts == {<<>>, <<"ld: ", "undefined symbol">>}
ToolBytes == <<42>>

\* What the spawned program can do: not start at all, or run, print, write the
\* file named by one of its arguments (wrote = 0: none) and exit.
ProcOutcomes(a) ==
    {[kind |-> "spawnfail", code |-> 0, stdout |-> <<>>, stderr |-> <<>>, wrote |-> 0]}
    \cup [kind : {"exit"}, code : {0, 1}, stdout : StdoutTexts,
          stderr : StderrTexts, wrote : 0..Len(a)]

NoProc == [kind |-> "none", code |-> 0, stdout |-> <<>>, stderr |-> <<>>, wrote |-> 0]

\* cmd.Run()'s error
CmdRunErr(p) ==
    IF p.kind = "spawnfail" THEN ErrorString(<<"exec: ", "executable file not found in $PATH">>)
    ELSE IF p.code # 0 THEN ErrorString(<<"exit status ", Itoa(p.code)[1]>>)
    ELSE Nil

File(b) == [data |-> b, readable |-> TRUE]
ProcEffect(fsys, a, p) ==
    IF p.wrote = 0 THEN fsys
    ELSE (a[p.wrote] :> File(ToolBytes)) @@ fsys

ExecErrDropStderr(command, e, errout) ==
    ErrorString(<<"Error running '">> \o command \o <<"': ">> \o e.msg \o <<": ">>)
\* fmt.Errorf("Error running '%s': %v: %s", e.command, err, errout.String())
ExecErr(command, e, errout) ==
    ErrorString(<<"Error running '">> \o command \o <<"': ">> \o e.msg
                \o <<": ">> \o errout)

\* ExecRunner.Run: [out, err] and the file system the program left behind
ExecRunnerRun(command, a, p, fsys) ==
    LET e == CmdRunErr(p)
    IN IF e # Nil
       THEN [out |-> NilReader, err |-> ExecErr(command, e, p.stderr),
             fs |-> ProcEffect(fsys, a, p)]
       ELSE [out |-> Reader(p.stdout), err |-> Nil, fs |-> ProcEffect(fsys, a, p)]

\* os.Open / ioutil.ReadFile's failure on a path, Nil when it can be read
OpenErr(fsys, path) ==
    IF path \notin DOMAIN fsys THEN PathError("open", path, "no such file or directory")
    ELSE IF ~fsys[path].readable THEN PathError("open", path, "permission denied")
    ELSE Nil

MissingOutputErr(fsys, path) ==
    [type |-> "MissingOutputError", msg |-> <<"missing output: ">> \o path]
\* the error of os.Open(e.expectedOutputFile), returned as it is
OutputOpenErr(fsys, path) == OpenErr(fsys, path)

\* OutputFileRunner.Run.  When os.Open fails the returned io.Reader wraps a nil
\* *os.File: there is no stream to read, as with NilReader.
OutputFileRunnerRun(e, a, p, fsys) ==
    LET inner == ExecRunnerRun(e.command, a, p, fsys)
    IN IF inner.err # Nil
       THEN [out |-> NilReader, err |-> inner.err, fs |-> inner.fs]
       ELSE IF OutputOpenErr(inner.fs, e.expectedOutputFile) # Nil
       THEN [out |-> NilReader, err |-> OutputOpenErr(inner.fs, e.expectedOutputFile),
             fs |-> inner.fs]
       ELSE [out |-> Reader(inner.fs[e.expectedOutputFile].data), err |-> Nil,
             fs |-> inner.fs]

TempNameFromHint(prefix, n) == <<"/tmp/">> \o prefix
\* ioutil.TempFile("", prefix): os.TempDir() + prefix + a fresh random suffix
TempName(prefix, n) == <<"/tmp/">> \o prefix \o Itoa(n)
\* filepath.Abs: an absolute path is returned cleaned, a relative one joined to
\* the working directory
FilepathAbs(p) == IF Head(p) = "/tmp/" THEN p ELSE <<"/cwd/">> \o p

\* writeTempFile's ways out: TempFile fails, filepath.Abs fails, io.Copy fails
\* after writing some bytes, Close fails, or it returns the path.
WriteOutcomes == {"create", "abs", "copy", "close", "ok"}
WriteErrSwallowed(o) == Nil
WriteErr(o) ==
    CASE o = "create" -> PathError("open", <<"/tmp/">>, "no space left on device")
      [] o = "abs" -> ErrorString(<<"getwd: ", "no such file or directory">>)
      [] o = "copy" -> ErrorString(<<"write: ", "no space left on device">>)
      [] o = "close" -> ErrorString(<<"close: ", "input/output error">>)
      [] OTHER -> Nil

Init_run ==
    /\ runner \in [kind : {"exec", "outfile", "mapped"},
                   command : Commands,
                   expectedOutputFile : {<<"out.bin">>},
                   inputFileArgs : SUBSET Tokens,
                   outputFileArg : Tokens]
    /\ runner.kind # "mapped" =>
          runner.inputFileArgs = {} /\ runner.outputFileArg = <<"out.bin">>
    /\ streams = [k \in runner.inputFileArgs |-> <<1, 2>>]
    /\ fs \in {<<>>,
               (<<"out.bin">> :> File(<<5>>)),
               (<<"out.bin">> :> [data |-> <<5>>, readable |-> FALSE])}
    /\ rpc = "idle"
    /\ args = <<>>
    /\ newArgs = <<>>
    /\ idx = 0
    /\ proc = NoProc
    /\ result = [out |-> NilReader, err |-> Nil]
    /\ innerCalls = <<>>
    /\ reads = <<>>
    /\ created = <<>>
    /\ openHandles = {}
    /\ nextTmp = 1

Idle_main ==
    /\ pc = "off"
    /\ flags = [nargs |-> 0, romsizeMbits |-> -1, filldata |-> 0]
    /\ waves = <<>>
    /\ wi = 0
    /\ ii = 0
    /\ rom = [ok |-> FALSE, fill |-> 0, len |-> 0, code |-> <<>>]
    /\ bin = <<>>
    /\ out = [exists |-> FALSE, len |-> 0, created |-> FALSE]
    /\ prevCode = <<>>
    /\ err = Nil
    /\ exitCode = -1
    /\ invoked = {}
    /\ failed = {}
    /\ ranAfter = {}

\* ExecRunner.Run
ExecRun ==
    /\ runner.kind = "exec" /\ rpc = "idle"
    /\ \E a \in ArgLists : \E p \in ProcOutcomes(a) :
          LET r == ExecRunnerRun(runner.command, a, p, fs)
          IN /\ args' = a
             /\ proc' = p
             /\ innerCalls' = Append(innerCalls, a)
             /\ result' = [out |-> r.out, err |-> r.err]
             /\ fs' = r.fs
    /\ rpc' = "done"
    /\ UNCHANGED <<runner, streams, newArgs, idx, reads, created, openHandles, nextTmp>>
    /\ UNCHANGED mainVars

\* OutputFileRunner.Run
OutputFileRun ==
    /\ runner.kind = "outfile" /\ rpc = "idle"
    /\ \E a \in ArgLists : \E p \in ProcOutcomes(a) :
          LET r == OutputFileRunnerRun(runner, a, p, fs)
          IN /\ args' = a
             /\ proc' = p
             /\ innerCalls' = Append(innerCalls, a)
             /\ result' = [out |-> r.out, err |-> r.err]
             /\ fs' = r.fs
             /\ reads' = IF CmdRunErr(p) = Nil
                         THEN Append(reads, runner.expectedOutputFile) ELSE reads
             /\ openHandles' = IF r.err = Nil
                               THEN openHandles \cup {runner.expectedOutputFile}
                               ELSE openHandles
    /\ rpc' = "done"
    /\ UNCHANGED <<runner, streams, newArgs, idx, created, nextTmp>>
    /\ UNCHANGED mainVars

\* MappedFileRunner.Run, entry: newArgs := make([]string, len(args))
MappedStart ==
    /\ runner.kind = "mapped" /\ rpc = "idle"
    /\ \E a \in ArgLists :
          /\ args' = a
          /\ newArgs' = [i \in 1..Len(a) |-> <<>>]
    /\ idx' = 1
    /\ rpc' = "loop"
    /\ UNCHANGED <<runner, streams, fs, proc, result, innerCalls, reads, created,
                   openHandles, nextTmp>>
    /\ UNCHANGED mainVars

\* the token a loop iteration stores in newArgs[i] when args[i] is no key
PassDropped(a, i) == <<>>
PassToken(a, i) == a[i]

\* MappedFileRunner.Run, one loop iteration on a token that is a key of
\* inputFileArgs: writeTempFile(e.inputFileArgs[arg], arg)
MappedStage ==
    /\ rpc = "loop" /\ idx <= Len(args)
    /\ args[idx] \in runner.inputFileArgs
    /\ \E o \in WriteOutcomes :
          LET arg == args[idx]
              path == FilepathAbs(TempName(arg, nextTmp))
              data == streams[arg]
              \* io.Copy moves every byte it can; on failure some prefix
              copied == IF o = "copy" THEN SubSeq(data, 1, Len(data) - 1)
                        ELSE IF o \in {"close", "ok"} THEN data ELSE <<>>
          IN IF o = "create"
             THEN /\ result' = [out |-> NilReader, err |-> WriteErr(o)]
                  /\ rpc' = "done"
                  /\ UNCHANGED <<streams, fs, newArgs, idx, created, openHandles, nextTmp>>
             ELSE /\ created' = Append(created, <<arg, path>>)
                  /\ nextTmp' = nextTmp + 1
                  /\ fs' = (path :> File(copied)) @@ fs
                  /\ streams' = [streams EXCEPT ![arg] =
                                    SubSeq(data, Len(copied) + 1, Len(data))]
                  /\ openHandles' = IF o \in {"abs", "copy"}
                                    THEN openHandles \cup {path} ELSE openHandles
                  /\ IF o = "ok"
                     THEN /\ newArgs' = [newArgs EXCEPT ![idx] = path]
                          /\ idx' = idx + 1
                          /\ UNCHANGED <<result, rpc>>
                     ELSE /\ result' = [out |-> NilReader, err |-> WriteErr(o)]
                          /\ rpc' = "done"
                          /\ UNCHANGED <<newArgs, idx>>
    /\ UNCHANGED <<runner, args, proc, innerCalls, reads>>
    /\ UNCHANGED mainVars

\* MappedFileRunner.Run, one loop iteration on any other token
MappedPass ==
    /\ rpc = "loop" /\ idx <= Len(args)
    /\ args[idx] \notin runner.inputFileArgs
    /\ newArgs' = [newArgs EXCEPT ![idx] = PassToken(args, idx)]
    /\ idx' = idx + 1
    /\ UNCHANGED <<runner, streams, fs, rpc, args, proc, result, innerCalls, reads,
                   created, openHandles, nextTmp>>
    /\ UNCHANGED mainVars

\* the path MappedFileRunner.Run reads after the inner run
OutputPathResolved(e, a, na) ==
    IF \E i \in 1..Len(a) : a[i] = e.outputFileArg
    THEN na[CHOOSE i \in 1..Len(a) : a[i] = e.outputFileArg]
    ELSE e.outputFileArg
OutputPath(e, a, na) == e.outputFileArg

\* MappedFileRunner.Run after the loop: e.runner.Run(r, newArgs), then
\* ioutil.ReadFile(e.outputFileArg)
MappedInner ==
    /\ rpc = "loop" /\ idx > Len(args)
    /\ \E p \in ProcOutcomes(newArgs) :
          LET r == ExecRunnerRun(runner.command, newArgs, p, fs)
              path == OutputPath(runner, args, newArgs)
          IN /\ innerCalls' = Append(innerCalls, newArgs)
             /\ proc' = p
             /\ fs' = r.fs
             /\ IF r.err # Nil
                THEN /\ result' = [out |-> NilReader, err |-> r.err]
                     /\ UNCHANGED reads
                ELSE /\ reads' = Append(reads, path)
                     /\ result' =
                           IF OpenErr(r.fs, path) # Nil
                           THEN [out |-> NilReader, err |-> OpenErr(r.fs, path)]
                           ELSE [out |-> Reader(r.fs[path].data), err |-> Nil]
    /\ rpc' = "done"
    /\ UNCHANGED <<runner, streams, args, newArgs, idx, created, openHandles, nextTmp>>
    /\ UNCHANGED mainVars

NextRun == ExecRun \/ OutputFileRun \/ MappedStart \/ MappedStage \/ MappedPass
           \/ MappedInner

InitRun == Init_run /\ Idle_main
SpecRun == InitRun /\ [][NextRun]_vars

\* ------------------------------------------------------------------------
\* cmd/spicy/main.go.  The file holds the program twice (lines 1-155 and
\* 157-304); the two copies of mainE differ in the flag variables' names and
\* in the default command names only.
\* ------------------------------------------------------------------------
\* n64rom.CodeStart
CodeStart == 4096
\* Go's int on a 32-bit build (GOARCH=386, arm); a 64-bit build wraps the same
\* way at 2^63.
IntBits == 32

NArgs == {0, 1, 2}
RomSizes == {-1, 0, 8, 2148, 4295}
FillValues == {-1, 0, 255, 256}
\* a blank image reaches up to the code
BlankLens == {CodeStart}
\* what objcopy can emit for wave w: any length up to MaxBin, every byte
\* telling the wave and the position it came from
BinOutputs(w) == {[i \in 1..n |-> 16 * w + i] : n \in 0..MaxBin}
WaveLists == UNION {[1..n -> 0..MaxIncludes] : n \in 0..MaxWaves}

\* byte(x): the low eight bits
ToByte(x) == x % 256

\* a * b in Go's int: the low IntBits bits of the product, read as a signed
\* number.  Computed on half-word limbs, so that no intermediate value
\* exceeds the model checker's integers for a = 1000000.
MulInt(a, b) ==
    LET limb == 2 ^ (IntBits \div 2)
        al == a % limb
        ah == (a \div limb) % limb
        bl == b % limb
        bh == (b \div limb) % limb
        p0 == al * bl
        lo == p0 % limb
        hi == ((p0 \div limb) + ah * bl + al * bh) % limb
    IN IF hi >= limb \div 2 THEN (hi - limb) * limb + lo ELSE hi * limb + lo

\* a / b in Go: truncated towards zero
DivInt(a, b) == IF a >= 0 THEN a \div b ELSE -((-a) \div b)

MinSizeExact(mbits) == 125000 * mbits
\* minSize := int64(1000000 * *romsizeMbits / 8)
MinSize(mbits) == DivInt(MulInt(1000000, mbits), 8)

\* fmt.Errorf("<stage>: %v", err)
Wrap(stage, cause) == ErrorString(<<stage, ": ">> \o cause.msg)
ToolFailure(cmd) == ExecErr(<<cmd>>, ErrorString(<<"exit status ", "1">>), <<>>)
IOFailure(op, path) == PathError(op, <<path>>, "input/output error")

SpecOpenErrBare(cause) == cause
\* fmt.Errorf("could not open spec: %v", err)
SpecOpenErr(cause) == Wrap("could not open spec", cause)

\* CreateRawObjectWrapper runs ld through a Runner: it works or it fails
WrapOutcomes == BOOLEAN

NoRom == [ok |-> FALSE, fill |-> 0, len |-> 0, code |-> <<>>]
\* n64rom.NewBlankRomFile(fill): an image of fill bytes
BlankRom(fill, n) == [ok |-> TRUE, fill |-> fill, len |-> n, code |-> <<>>]

\* rom.WriteAt(b, off), off >= CodeStart: code holds the image from CodeStart
\* on as far as it was written; bytes skipped over keep the fill byte.
RomWriteAt(r, b, off) ==
    LET rel == off - CodeStart
        n == Max(Len(r.code), rel + Len(b))
    IN [r EXCEPT
           !.code = [i \in 1..n |->
                        IF i > rel /\ i <= rel + Len(b) THEN b[i - rel]
                        ELSE IF i <= Len(r.code) THEN r.code[i]
                        ELSE r.fill],
           !.len = Max(r.len, off + Len(b))]

WriteOffsetAfterLast(r) == CodeStart + Len(r.code)
\* the offset every unit is written at: n64rom.CodeStart
WriteOffset(r) == CodeStart

\* bookkeeping of a stage's invocation and outcome
Log(stage, ok) ==
    /\ invoked' = invoked \cup {stage}
    /\ failed' = IF ok THEN failed ELSE failed \cup {stage}
    /\ ranAfter' = ranAfter \cup failed

\* return <error> from mainE
Return(e) ==
    /\ err' = e
    /\ pc' = "returned"

WaveStartOneUnit(ws, w) ==
    IF w > Len(ws) \/ w > 1 THEN "create"
    ELSE IF ws[w] > 0 THEN "openInclude" ELSE "entry"
\* where the range loops go next: the first include of wave w, or its entry
\* binary when it has none; past the last wave, os.Create
WaveStart(ws, w) ==
    IF w > Len(ws) THEN "create"
    ELSE IF ws[w] > 0 THEN "openInclude" ELSE "entry"

Idle_run ==
    /\ runner = [kind |-> "none", command |-> <<>>, expectedOutputFile |-> <<>>,
                 inputFileArgs |-> {}, outputFileArg |-> <<>>]
    /\ streams = <<>>
    /\ fs = <<>>
    /\ rpc = "off"
    /\ args = <<>>
    /\ newArgs = <<>>
    /\ idx = 0
    /\ proc = NoProc
    /\ result = [out |-> NilReader, err |-> Nil]
    /\ innerCalls = <<>>
    /\ reads = <<>>
    /\ created = <<>>
    /\ openHandles = {}
    /\ nextTmp = 1

OutputOpenedEarly(o) == [exists |-> TRUE, len |-> 0, created |-> TRUE]
\* the output path across a step that comes before os.Create: mainE holds no
\* operation on *romImageFile ahead of it
OutputBeforeCreate(o) == o

\* the process starts: the command line and the output path's state on disk
Init_main ==
    /\ pc = "start"
    /\ flags \in [nargs : NArgs, romsizeMbits : RomSizes, filldata : FillValues]
    /\ waves = <<>>
    /\ wi = 0
    /\ ii = 0
    /\ rom = NoRom
    /\ bin = <<>>
    /\ out \in {[exists |-> FALSE, len |-> 0, created |-> FALSE],
                [exists |-> TRUE, len |-> 7, created |-> FALSE]}
    /\ prevCode = <<>>
    /\ err = Nil
    /\ exitCode = -1
    /\ invoked = {}
    /\ failed = {}
    /\ ranAfter = {}

\* flag.Parse and the argument count check
ParseArgs ==
    /\ pc = "start"
    /\ IF flags.nargs = 0
       THEN Return(ErrorString(<<"missing argument: <spec>">>))
       ELSE IF flags.nargs # 1
       THEN Return(ErrorString(<<"invalid usage: got ", Itoa(flags.nargs)[1],
                                 " arguments, expected exactly 1">>))
       ELSE pc' = "openSpec" /\ UNCHANGED err
    /\ out' = OutputBeforeCreate(out)
    /\ UNCHANGED <<flags, waves, wi, ii, rom, bin, prevCode, exitCode, invoked, failed, ranAfter>>
    /\ UNCHANGED runVars

\* f, err := os.Open(flag.Arg(0))
OpenSpec ==
    /\ pc = "openSpec"
    /\ \E ok \in BOOLEAN :
          /\ Log("openSpec", ok)
          /\ IF ok THEN pc' = "preprocess" /\ UNCHANGED err
             ELSE Return(SpecOpenErr(PathError("open", <<"spec">>,
                                               "no such file or directory")))
    /\ out' = OutputBeforeCreate(out)
    /\ UNCHANGED <<flags, waves, wi, ii, rom, bin, prevCode, exitCode>>
    /\ UNCHANGED runVars

\* spicy.PreprocessSpec(f, gcc, ...)
Preprocess ==
    /\ pc = "preprocess"
    /\ \E ok \in BOOLEAN :
          /\ Log("preprocess", ok)
          /\ IF ok THEN pc' = "parse" /\ UNCHANGED err
             ELSE Return(Wrap("could not preprocess spec", ToolFailure("gcc")))
    /\ out' = OutputBeforeCreate(out)
    /\ UNCHANGED <<flags, waves, wi, ii, rom, bin, prevCode, exitCode>>
    /\ UNCHANGED runVars

\* spicy.ParseSpec(preprocessed)
ParseSpec ==
    /\ pc = "parse"
    /\ \E ok \in BOOLEAN :
          /\ Log("parse", ok)
          /\ IF ok
             THEN /\ waves' \in WaveLists
                  /\ pc' = "newRom"
                  /\ UNCHANGED err
             ELSE /\ Return(Wrap("could not parse spec", ErrorString(<<"syntax error">>)))
                  /\ UNCHANGED waves
    /\ out' = OutputBeforeCreate(out)
    /\ UNCHANGED <<flags, wi, ii, rom, bin, prevCode, exitCode>>
    /\ UNCHANGED runVars

FillAsGiven(x) == x
\* the argument of n64rom.NewBlankRomFile: byte(*filldata)
FillByte(x) == ToByte(x)

\* rom, err := n64rom.NewBlankRomFile(byte(*filldata)), then the first wave
NewBlankRomFile ==
    /\ pc = "newRom"
    /\ \E ok \in BOOLEAN :
          /\ Log("newRom", ok)
          /\ IF ok
             THEN /\ \E n \in BlankLens : rom' = BlankRom(FillByte(flags.filldata), n)
                  /\ wi' = 1
                  /\ ii' = 1
                  /\ pc' = WaveStart(waves, 1)
                  /\ UNCHANGED err
             ELSE /\ Return(Wrap("n64rom.NewBlankRomFile", ErrorString(<<"out of memory">>)))
                  /\ UNCHANGED <<rom, wi, ii>>
    /\ out' = OutputBeforeCreate(out)
    /\ UNCHANGED <<flags, waves, bin, prevCode, exitCode>>
    /\ UNCHANGED runVars

\* f, err := os.Open(include)
OpenInclude ==
    /\ pc = "openInclude"
    /\ \E ok \in BOOLEAN :
          /\ Log("openInclude", ok)
          /\ IF ok THEN pc' = "wrap" /\ UNCHANGED err
             ELSE Return(Wrap("could not open include",
                              PathError("open", <<"include">>, "no such file or directory")))
    /\ out' = OutputBeforeCreate(out)
    /\ UNCHANGED <<flags, waves, wi, ii, rom, bin, prevCode, exitCode>>
    /\ UNCHANGED runVars

\* spicy.CreateRawObjectWrapper(f, include+".o", ld): whatever it returns is
\* dropped, and the loop goes on
CreateRawObjectWrapper ==
    /\ pc = "wrap"
    /\ \E ok \in WrapOutcomes : Log("wrap", ok)
    /\ IF ii < waves[wi]
       THEN ii' = ii + 1 /\ pc' = "openInclude"
       ELSE ii' = 1 /\ pc' = "entry"
    /\ out' = OutputBeforeCreate(out)
    /\ UNCHANGED <<flags, waves, wi, rom, bin, prevCode, err, exitCode>>
    /\ UNCHANGED runVars

\* entry, err := spicy.CreateEntryBinary(w, as)
CreateEntryBinary ==
    /\ pc = "entry"
    /\ \E ok \in BOOLEAN :
          /\ Log("entry", ok)
          /\ IF ok THEN pc' = "link" /\ UNCHANGED err
             ELSE Return(Wrap("spicy.CreateEntryBinary", ToolFailure("as")))
    /\ out' = OutputBeforeCreate(out)
    /\ UNCHANGED <<flags, waves, wi, ii, rom, bin, prevCode, exitCode>>
    /\ UNCHANGED runVars

\* linkedObject, err := spicy.LinkSpec(w, ld, entry)
LinkSpec ==
    /\ pc = "link"
    /\ \E ok \in BOOLEAN :
          /\ Log("link", ok)
          /\ IF ok THEN pc' = "binarize" /\ UNCHANGED err
             ELSE Return(Wrap("spicy.LinkSpec", ToolFailure("ld")))
    /\ out' = OutputBeforeCreate(out)
    /\ UNCHANGED <<flags, waves, wi, ii, rom, bin, prevCode, exitCode>>
    /\ UNCHANGED runVars

\* binarizedObject, err := spicy.BinarizeObject(linkedObject, objcopy)
BinarizeObject ==
    /\ pc = "binarize"
    /\ \E ok \in BOOLEAN :
          /\ Log("binarize", ok)
          /\ IF ok
             THEN /\ bin' \in BinOutputs(wi)
                  /\ pc' = "readAll"
                  /\ UNCHANGED err
             ELSE /\ Return(Wrap("spicy.BinarizeObject", ToolFailure("objcopy")))
                  /\ UNCHANGED bin
    /\ out' = OutputBeforeCreate(out)
    /\ UNCHANGED <<flags, waves, wi, ii, rom, prevCode, exitCode>>
    /\ UNCHANGED runVars

\* binarizedObjectBytes, err := ioutil.ReadAll(binarizedObject)
ReadAll ==
    /\ pc = "readAll"
    /\ \E ok \in BOOLEAN :
          /\ Log("readAll", ok)
          /\ IF ok THEN pc' = "writeAt" /\ UNCHANGED err
             ELSE Return(Wrap("could not read binarized object",
                              ErrorString(<<"unexpected EOF">>)))
    /\ out' = OutputBeforeCreate(out)
    /\ UNCHANGED <<flags, waves, wi, ii, rom, bin, prevCode, exitCode>>
    /\ UNCHANGED runVars

\* rom.WriteAt(binarizedObjectBytes, n64rom.CodeStart): its results are
\* dropped; the err tested on the next line is ReadAll's, which is nil here.
\* Then the next wave, or os.Create after the last one.
WriteRom ==
    /\ pc = "writeAt"
    /\ \E ok \in BOOLEAN :
          /\ Log("writeAt", ok)
          /\ IF ok
             THEN /\ rom' = RomWriteAt(rom, bin, WriteOffset(rom))
                  /\ prevCode' = rom.code
             ELSE UNCHANGED <<rom, prevCode>>
    /\ wi' = wi + 1
    /\ ii' = 1
    /\ pc' = WaveStart(waves, wi + 1)
    /\ out' = OutputBeforeCreate(out)
    /\ UNCHANGED <<flags, waves, bin, err, exitCode>>
    /\ UNCHANGED runVars

\* out, err := os.Create(*romImageFile)
CreateOut ==
    /\ pc = "create"
    /\ \E ok \in BOOLEAN :
          /\ Log("create", ok)
          /\ IF ok
             THEN /\ out' = [exists |-> TRUE, len |-> 0, created |-> TRUE]
                  /\ pc' = IF flags.romsizeMbits > 0 THEN "pad" ELSE "save"
                  /\ UNCHANGED err
             ELSE /\ Return(Wrap("could not create ROM",
                                 PathError("open", <<"rom.n64">>, "permission denied")))
                  /\ UNCHANGED out
    /\ UNCHANGED <<flags, waves, wi, ii, rom, bin, prevCode, exitCode>>
    /\ UNCHANGED runVars

\* out.WriteAt([]byte{0}, minSize), when *romsizeMbits > 0; a negative offset
\* is refused
PadOut ==
    /\ pc = "pad"
    /\ \E ok \in BOOLEAN :
          LET minSize == MinSize(flags.romsizeMbits)
              done == ok /\ minSize >= 0
          IN /\ Log("pad", done)
             /\ IF done
                THEN /\ out' = [out EXCEPT !.len = Max(out.len, minSize + 1)]
                     /\ pc' = "save"
                     /\ UNCHANGED err
                ELSE /\ Return(IF minSize < 0
                               THEN ErrorString(<<"writeat ", "rom.n64", ": ", "negative offset">>)
                               ELSE IOFailure("write", "rom.n64"))
                     /\ UNCHANGED out
    /\ UNCHANGED <<flags, waves, wi, ii, rom, bin, prevCode, exitCode>>
    /\ UNCHANGED runVars

\* rom.Save(out): the image goes to the file from its start
SaveRom ==
    /\ pc = "save"
    /\ \E ok \in BOOLEAN :
          /\ Log("save", ok)
          /\ IF ok
             THEN /\ out' = [out EXCEPT !.len = Max(out.len, rom.len)]
                  /\ pc' = "close"
                  /\ UNCHANGED err
             ELSE /\ Return(Wrap("could not write ROM", IOFailure("write", "rom.n64")))
                  /\ UNCHANGED out
    /\ UNCHANGED <<flags, waves, wi, ii, rom, bin, prevCode, exitCode>>
    /\ UNCHANGED runVars

\* return out.Close()
CloseOut ==
    /\ pc = "close"
    /\ \E ok \in BOOLEAN :
          /\ Log("close", ok)
          /\ Return(IF ok THEN Nil ELSE IOFailure("close", "rom.n64"))
    /\ UNCHANGED <<flags, waves, wi, ii, rom, bin, out, prevCode, exitCode>>
    /\ UNCHANGED runVars

\* main: os.Exit(1) on an error, exit status 0 otherwise
Main ==
    /\ pc = "returned"
    /\ exitCode' = IF err # Nil THEN 1 ELSE 0
    /\ pc' = "exited"
    /\ UNCHANGED <<flags, waves, wi, ii, rom, bin, out, prevCode, err, invoked, failed, ranAfter>>
    /\ UNCHANGED runVars

Next == ParseArgs \/ OpenSpec \/ Preprocess \/ ParseSpec \/ NewBlankRomFile
        \/ OpenInclude \/ CreateRawObjectWrapper \/ CreateEntryBinary \/ LinkSpec
        \/ BinarizeObject \/ ReadAll \/ WriteRom \/ CreateOut \/ PadOut \/ SaveRom
        \/ CloseOut \/ Main

Init == Init_main /\ Idle_run
Spec == Init /\ [][Next]_vars

\* ------------------------------------------------------------------------
\* Properties of the runners (checked under SpecRun)
\* ------------------------------------------------------------------------
IsTempPath(p) == \E k \in 1..Len(created) : created[k][2] = p
InnerRan == innerCalls # <<>>
InnerFailed == InnerRan /\ CmdRunErr(proc) # Nil
InnerSucceeded == InnerRan /\ CmdRunErr(proc) = Nil

\* C1: the argument list MappedFileRunner.Run hands to the inner runner is as
\* long as args; position i holds the path of a temp file staged for args[i]
\* exactly when args[i] is a key of inputFileArgs, and holds args[i] itself
\* otherwise.
C1_ArgsRewritten ==
    (runner.kind = "mapped" /\ InnerRan) =>
        LET na == innerCalls[1]
        IN /\ Len(innerCalls) = 1
           /\ Len(na) = Len(args)
           /\ \A i \in 1..Len(args) :
                 /\ IsTempPath(na[i]) <=> args[i] \in runner.inputFileArgs
                 /\ args[i] \in runner.inputFileArgs =>
                       \E k \in 1..Len(created) : created[k] = <<args[i], na[i]>>
                 /\ args[i] \notin runner.inputFileArgs => na[i] = args[i]

\* C1 witness: the inner runner got a list in which one token was staged and
\* another was passed through as it is.
C1_Witness ==
    /\ runner.kind = "mapped" /\ InnerRan
    /\ Len(args) >= 2
    /\ \E i, j \in 1..Len(args) :
          /\ args[i] \in runner.inputFileArgs
          /\ args[j] \notin runner.inputFileArgs
          /\ innerCalls[1][j] = args[j]

\* C2: when the program of ExecRunner.Run cannot be spawned or exits non-zero,
\* Run returns an error and a nil stream; the message contains the command
\* and the captured standard error, and standard output is not returned.
C2_ExecFailure ==
    (runner.kind = "exec" /\ rpc = "done"
     /\ (proc.kind = "spawnfail" \/ proc.code # 0)) =>
        /\ result.err # Nil
        /\ result.out = NilReader
        /\ Contains(result.err.msg, runner.command)
        /\ Contains(result.err.msg, proc.stderr)

\* C2 witness: a non-zero exit that printed to both streams.
C2_Witness ==
    /\ runner.kind = "exec" /\ rpc = "done"
    /\ proc.kind = "exit" /\ proc.code # 0
    /\ proc.stderr # <<>> /\ proc.stdout # <<>>
    /\ result.err # Nil

OutputFileMissing ==
    /\ runner.kind = "outfile" /\ rpc = "done"
    /\ InnerSucceeded
    /\ OpenErr(fs, runner.expectedOutputFile) # Nil

\* C3 as claimed: when the inner run of OutputFileRunner.Run succeeds and the
\* output file cannot be opened, the error is a distinct missing-output error,
\* not the generic I/O error of the open.
C3_DistinctMissingOutput ==
    OutputFileMissing =>
        /\ result.err # Nil
        /\ result.err.type # "*os.PathError"

\* C3 as amended: in that case Run fails with the error of os.Open itself, a
\* generic *os.PathError naming the path.
C3_OpenErrorReturned ==
    OutputFileMissing =>
        /\ result.err = OpenErr(fs, runner.expectedOutputFile)
        /\ result.err.type = "*os.PathError"
        /\ Contains(result.err.msg, runner.expectedOutputFile)

\* C3 witness: the inner run succeeded and the output file is not there.
C3_Witness ==
    /\ OutputFileMissing
    /\ runner.expectedOutputFile \notin DOMAIN fs

\* C10: when the inner run of MappedFileRunner.Run fails, Run returns the
\* inner runner's error unchanged and reads no file; when it succeeds, Run
\* reads the path that is literally outputFileArg, fails with that read's
\* error if there is one and returns the file's bytes otherwise.
C10_OutputRead ==
    (runner.kind = "mapped" /\ rpc = "done" /\ InnerRan) =>
        /\ InnerFailed =>
              /\ result.err = ExecRunnerRun(runner.command, innerCalls[1], proc, fs).err
              /\ result.err.type = "*errors.errorString"
              /\ result.out = NilReader
              /\ reads = <<>>
        /\ InnerSucceeded =>
              /\ reads = <<runner.outputFileArg>>
              /\ OpenErr(fs, runner.outputFileArg) # Nil =>
                    /\ result.err = OpenErr(fs, runner.outputFileArg)
                    /\ result.out = NilReader
              /\ OpenErr(fs, runner.outputFileArg) = Nil =>
                    /\ result.err = Nil
                    /\ result.out = Reader(fs[runner.outputFileArg].data)

\* C10 witness: outputFileArg is itself a key, its token was replaced by a temp
\* path, the program wrote that temp file, and Run read outputFileArg.
C10_Witness ==
    /\ runner.kind = "mapped" /\ rpc = "done" /\ InnerSucceeded
    /\ runner.outputFileArg \in runner.inputFileArgs
    /\ \E i \in 1..Len(args) :
          /\ args[i] = runner.outputFileArg
          /\ proc.wrote = i
          /\ innerCalls[1][i] # runner.outputFileArg
    /\ reads = <<runner.outputFileArg>>

\* ------------------------------------------------------------------------
\* Properties of the pipeline (checked under Spec)
\* ------------------------------------------------------------------------
Stopped == pc \in {"returned", "exited"}

\* two build units, and rom.WriteAt stored the output of both
BothUnitsWritten ==
    /\ Len(waves) = 2
    /\ wi = 3
    /\ "writeAt" \notin failed

C5Stages == {"openSpec", "preprocess", "parse", "newRom", "openInclude", "wrap",
             "entry", "link", "binarize", "readAll", "create", "pad", "save", "close"}

\* C5: once one of the stages (spec open, preprocess, parse, image
\* initialization, include open, raw-object wrapping, entry binary, link,
\* binarize, read of the binarized stream, finalize) has failed, no stage is
\* invoked after it and the process exits with 1; it exits with 0 only when
\* none of them failed.
C5_FailFast ==
    /\ \A f \in failed \cap C5Stages :
          /\ f \notin ranAfter
          /\ pc = "exited" => exitCode = 1
    /\ exitCode = 0 => failed \cap C5Stages = {}

\* C6: once rom.WriteAt has failed for a build unit, no further stage runs,
\* the output file is not created and the run ends in failure.
C6_WriteFailureAborts ==
    "writeAt" \in failed =>
        /\ "writeAt" \notin ranAfter
        /\ ~out.created
        /\ pc = "exited" => exitCode = 1

\* C7: after a successful run with a positive ROM size s the output file is
\* at least 1000000*s/8 + 1 = 125000*s + 1 bytes long; with s <= 0 no pad
\* byte is written.
C7_PadLength ==
    /\ (pc = "exited" /\ exitCode = 0 /\ flags.romsizeMbits > 0) =>
          out.len >= MinSizeExact(flags.romsizeMbits) + 1
    /\ flags.romsizeMbits <= 0 => "pad" \notin invoked

\* C8: when the spec file cannot be opened, mainE returns an error whose
\* message contains "could not open spec" and the process exits with 1;
\* no external command has run, no image was allocated and the output file
\* was not created.
C8_SpecOpenFailure ==
    "openSpec" \in failed =>
        /\ Stopped
        /\ err # Nil
        /\ Contains(err.msg, <<"could not open spec">>)
        /\ pc = "exited" => exitCode = 1
        /\ invoked = {"openSpec"}
        /\ ~rom.ok
        /\ ~out.created

\* C8 witness: the process has exited after failing to open the spec.
C8_Witness ==
    /\ pc = "exited"
    /\ failed = {"openSpec"}
    /\ exitCode = 1

\* C9: a fill value outside 0..255 never yields an image: initialization
\* rejects it.
C9_InvalidFillRejected ==
    flags.filldata \notin 0..255 => ~rom.ok

\* ------------------------------------------------------------------------
\* Order of the build (checked under Spec)
\* ------------------------------------------------------------------------
UnitStages == {"openInclude", "wrap", "entry", "link", "binarize", "readAll", "writeAt"}

\* one step of the pipeline keeps the order of the loops of mainE
C11_Step ==
    \* units are taken in spec order, one at a time, and a unit is left only
    \* by its write into the image
    /\ wi' # wi => \/ pc = "newRom" /\ wi' = 1
                   \/ pc = "writeAt" /\ wi' = wi + 1
    \* inside a unit: wrap follows the opening of its include, the entry
    \* binary follows the last wrap (or opens the unit when it has no
    \* include), then link, binarize, read and write
    /\ pc' # pc =>
          /\ pc' = "openInclude" =>
                 \/ pc \in {"newRom", "writeAt"} /\ ii' = 1
                 \/ pc = "wrap" /\ wi' = wi /\ ii' = ii + 1
          /\ pc' = "wrap" => pc = "openInclude" /\ wi' = wi
          /\ pc' = "entry" =>
                 \/ pc = "wrap" /\ wi' = wi /\ ii = waves[wi]
                 \/ pc \in {"newRom", "writeAt"} /\ waves[wi'] = 0
          /\ pc' = "link" => pc = "entry" /\ wi' = wi
          /\ pc' = "binarize" => pc = "link" /\ wi' = wi
          /\ pc' = "readAll" => pc = "binarize" /\ wi' = wi
          /\ pc' = "writeAt" => pc = "readAll" /\ wi' = wi
          \* a stage of a unit is only entered for a unit of the spec
          /\ pc' \in UnitStages => wi' \in 1..Len(waves)
          \* os.Create comes after the last unit's write, or at once when the
          \* spec has no unit
          /\ pc' = "create" =>
                 /\ wi' = Len(waves) + 1
                 /\ \/ pc = "writeAt"
                    \/ pc = "newRom" /\ waves = <<>>
    /\ (out'.created /\ ~out.created) => pc = "create" /\ wi = Len(waves) + 1

\* C11: the units are processed in spec order; in each unit the stages run
\* in the order wrap, entry binary, link, binarize, write into the image; no
\* stage of the next unit starts before the write of the unit before it, and
\* the output file is created only after the write of the last unit.
C11_Order == [][C11_Step]_vars

\* C11 witness: both units of a two-unit spec, the first one with an include,
\* went through every stage and the output file has been created.
C11_Witness ==
    /\ Len(waves) = 2
    /\ waves[1] > 0
    /\ wi = 3
    /\ UnitStages \subseteq invoked
    /\ out.created

\* ------------------------------------------------------------------------
\* Staging of the mapped streams (checked under SpecRun)
\* ------------------------------------------------------------------------
\* the temp files made so far for key k, in the order they were made
StagedFor(k) == {j \in 1..Len(created) : created[j][1] = k}
\* the positions of args the loop is past that hold key k
Occurrences(k) == {i \in 1..Len(args) : i < idx /\ args[i] = k}
\* the loop has not failed: it is running, or it ended and the inner runner ran
StagingSucceeding == runner.kind = "mapped" /\ (rpc = "loop" \/ InnerRan)

\* C12 as stated: after a run whose staging succeeded, every mapped stream
\* has exactly one temp file, whatever the argument list.
C12_OneFilePerStream ==
    (runner.kind = "mapped" /\ InnerRan) =>
        \A k \in runner.inputFileArgs : Cardinality(StagedFor(k)) = 1

\* C12: a mapped stream gets one temp file per occurrence of its key in args:
\* none when the key does not occur, and several files under distinct paths
\* when it occurs several times; the first of them receives the whole stream
\* and the later ones are empty, the stream being drained by then.
C12_OneFilePerOccurrence ==
    StagingSucceeding =>
        /\ \A k \in runner.inputFileArgs :
               Cardinality(StagedFor(k)) = Cardinality(Occurrences(k))
        /\ \A j1, j2 \in 1..Len(created) :
               j1 # j2 => created[j1][2] # created[j2][2]
        /\ rpc = "loop" =>
               \A j \in 1..Len(created) :
                  LET k == created[j][1]
                      first == \A j0 \in StagedFor(k) : j0 >= j
                  IN /\ created[j][2] \in DOMAIN fs
                     /\ first => Len(fs[created[j][2]].data) > 0 /\ streams[k] = <<>>
                     /\ ~first => fs[created[j][2]].data = <<>>

\* C12 witness: the inner runner ran on an argument list that holds the same
\* key twice while another key of the mapping does not occur in it.
C12_Witness ==
    /\ runner.kind = "mapped" /\ InnerRan
    /\ Len(args) = 2 /\ args[1] = args[2]
    /\ args[1] \in runner.inputFileArgs
    /\ Cardinality(StagedFor(args[1])) = 2
    /\ \E k \in runner.inputFileArgs : StagedFor(k) = {}

\* C13: whenever writeTempFile has returned, with a path or with an error, no
\* handle of a temp file it created is still open.
C13_NoHandleLeftOpen ==
    runner.kind = "mapped" =>
        \A j \in 1..Len(created) : created[j][2] \notin openHandles

\* ------------------------------------------------------------------------
\* Errors and the output file of the pipeline (checked under Spec)
\* ------------------------------------------------------------------------
\* what the messages mainE builds with fmt.Errorf start with
StageMessages ==
    {"missing argument: <spec>", "invalid usage: got ", "could not open spec",
     "could not preprocess spec", "could not parse spec", "n64rom.NewBlankRomFile",
     "could not open include", "spicy.CreateEntryBinary", "spicy.LinkSpec",
     "spicy.BinarizeObject", "could not read binarized object",
     "could not create ROM", "could not write ROM"}

\* C14: every error mainE returns is one it built with a message naming the
\* stage that failed, the padding write and the close of the output file
\* included.
C14_EveryErrorWrapped ==
    (Stopped /\ err # Nil) =>
        /\ err.type = "*errors.errorString"
        /\ Head(err.msg) \in StageMessages

\* ------------------------------------------------------------------------
\* The inner run of MappedFileRunner (checked under SpecRun)
\* ------------------------------------------------------------------------
\* Run has returned without reaching e.runner.Run: a writeTempFile failed
StagingFailed == runner.kind = "mapped" /\ rpc = "done" /\ ~InnerRan

\* C15: MappedFileRunner.Run calls the inner runner at most once, and only
\* when every token of args that is a key was staged to a closed temp file;
\* when the staging of a token fails, Run returns that error and no reader,
\* the inner runner is not called, and the temp files made so far are still
\* on disk, as they are on every other path.
C15_InnerAfterStaging ==
    runner.kind = "mapped" =>
        /\ Len(innerCalls) <= 1
        /\ InnerRan =>
               /\ idx = Len(args) + 1
               /\ \A i \in 1..Len(args) :
                      args[i] \in runner.inputFileArgs =>
                          /\ \E j \in 1..Len(created) :
                                 created[j] = <<args[i], innerCalls[1][i]>>
                          /\ innerCalls[1][i] \in DOMAIN fs
                          /\ innerCalls[1][i] \notin openHandles
        /\ StagingFailed =>
               /\ idx <= Len(args)
               /\ args[idx] \in runner.inputFileArgs
               /\ result.err # Nil
               /\ result.err \in {WriteErr(o) : o \in WriteOutcomes \ {"ok"}}
               /\ result.out = NilReader
               /\ proc = NoProc
               /\ reads = <<>>
        /\ \A j \in 1..Len(created) : created[j][2] \in DOMAIN fs

\* C15 witness: the first token was staged, the staging of the second one
\* failed, and Run has returned with the first temp file still on disk.
C15_Witness ==
    /\ StagingFailed
    /\ idx = 2
    /\ Len(created) >= 1
    /\ newArgs[1] = created[1][2]
    /\ created[1][2] \in DOMAIN fs
    /\ result.err # Nil

\* ------------------------------------------------------------------------
\* The output file before the finalize step (checked under Spec)
\* ------------------------------------------------------------------------
FinalizeSteps == {"create", "pad", "save", "close"}

\* a step outside finalize leaves the output path as it was, and as long as
\* os.Create was not called the file is not created
C16_Step ==
    /\ out' # out => pc \in FinalizeSteps
    /\ (out'.created /\ ~out.created) => pc = "create"
    /\ "create" \notin invoked' => (out' = out /\ ~out'.created)

\* C16: the output file is created or truncated in the finalize step only: a
\* run that fails in the argument check, the opening of the spec, preprocess,
\* parse, the allocation of the image or a stage of a unit leaves a file that
\* was there unchanged and creates none.
C16_OutputOnlyInFinalize == [][C16_Step]_vars

\* C16 witness: the link of a unit failed and the process exited with 1; the
\* file that was at the output path is as it was and os.Create never ran.
C16_Witness ==
    /\ pc = "exited" /\ exitCode = 1
    /\ "link" \in failed
    /\ FinalizeSteps \cap invoked = {}
    /\ out = [exists |-> TRUE, len |-> 7, created |-> FALSE]

====
